---- MODULE Spec2Model ----
(***************************************************************************)
(* Model of the nested sampling loop of flowproposal/nestedsampler.py:     *)
(* the evidence integrator _NSintegralState, the sorted live-point         *)
(* population, the proposal switching / retraining policy of check_state,  *)
(* the consume/replace cycle and checkpoint / resume.                      *)
(*                                                                         *)
(* Numbers.  Log-likelihoods and log-volumes are exact rationals with the  *)
(* common denominator Den, stored as their integer numerators; -infinity   *)
(* and +infinity are the sentinels NegInf and PosInf.  Quantities that the *)
(* code obtains through logaddexp (logZ, Wt, condition) are not on that    *)
(* grid: they are stored as the fixed-point value Scale * exp(x) of the    *)
(* log-value x, so that -infinity is 0, the order of the stored values is  *)
(* the order of the log-values, and logaddexp is addition.                 *)
(***************************************************************************)
EXTENDS Integers, Sequences, FiniteSets, TLC

\* ------------------------------------------------------------------ bounds
NLive == 2
MaxL == 2
MaxIter == 3
MaxRejected == 3
MaxDraws == 4

\* ------------------------------------------------------------- arithmetic
Scale == 10^4
NegInf == 0 - 10^9
PosInf == 10^9
\* a NaN of the code only ever meets the test 'condition > tolerance', which it fails
NaN == NegInf - 1

RECURSIVE GCD(_, _)
GCD(a, b) == IF b = 0 THEN a ELSE GCD(b, a % b)

RECURSIVE LCMUpTo(_)
LCMUpTo(n) == IF n <= 1 THEN 1 ELSE (LCMUpTo(n - 1) * n) \div GCD(LCMUpTo(n - 1), n)

\* common denominator of all log-values: every -1/k, k in 1..NLive, is on the grid
Den == LCMUpTo(NLive)

Max(a, b) == IF a >= b THEN a ELSE b
Min(a, b) == IF a <= b THEN a ELSE b

\* sum of two log-values
Add(a, b) == IF a = NegInf \/ b = NegInf THEN NegInf ELSE a + b

\* Scale * exp(-1/Den) by the power series of exp, in fixed point
RECURSIVE ExpSeries(_, _, _)
ExpSeries(term, k, sign) ==
  IF term = 0 THEN 0
  ELSE sign * term + ExpSeries(term \div (Den * k), k + 1, 0 - sign)

ExpUnit == ExpSeries(Scale, 1, 1)

\* Scale * exp(-n/Den) for n >= 0
RECURSIVE ExpNeg(_)
ExpNeg(n) == IF n = 0 THEN Scale ELSE (ExpNeg(n - 1) * ExpUnit) \div Scale

\* numpy.exp of a log-value x <= 0, in fixed point
exp(x) == IF x = NegInf THEN 0 ELSE ExpNeg(0 - x)

\* Scale * exp(n/Den) for n >= 0
ExpPos(n) == (Scale * Scale) \div ExpNeg(n)

\* numpy.logaddexp on stored (fixed-point) values
logaddexp(a, b) == a + b

\* nest2pos.logsubexp(0, logt) = log(1 - exp(logt)), as a stored value
logsubexp0(logt) == Scale - exp(logt)

\* numpy.isfinite of a log-value
IsFinite(x) == x # NegInf /\ x # PosInf /\ x # NaN

\* numpy.isfinite of a quantity kept as a stored value: stored 0 is -infinity
IsFiniteStored(z) == z # 0 /\ z # PosInf /\ z # NaN

\* the log-value (numerator over Den, rounded towards -infinity) of a stored
\* value 0 < z: the least n with Scale * exp(-n/Den) <= z, negated
RECURSIVE LogStep(_, _, _)
LogStep(z, n, e) == IF e <= z THEN 0 - n ELSE LogStep(z, n + 1, (e * ExpUnit) \div Scale)

LogStored(z) == LogStep(z, 0, Scale)

\* a < b for fractions an/ad and bn/bd with positive denominators
FracLess(an, ad, bn, bd) == an * bd < bn * ad

\* ------------------------------------------------------------------ state
VARIABLES
  pc,                  \* position of the caller in nested_sampling_loop
  cfg,                 \* constructor arguments
  live_points,         \* self.live_points
  nested_samples,      \* self.nested_samples
  insertion_indices,   \* self.insertion_indices
  rolling_p,           \* self.rolling_p
  accepted, rejected,  \* self.accepted, self.rejected
  acceptance,          \* self.acceptance as <<numerator, denominator>>
  iteration,           \* self.iteration
  logLmin, logLmax,    \* self.logLmin, self.logLmax
  condition,           \* self.condition, stored as Scale * exp(condition)
  max_count,           \* self.max_count
  last_updated,        \* self.last_updated
  uninformed_sampling, \* self.uninformed_sampling
  proposal,            \* self.proposal: "unset", "uninformed" or "flow"
  state,               \* self.state, the _NSintegralState
  counter,             \* local counter of the running yield_sample pass
  hist,                \* history: what the environment has seen
  ret,                 \* outcome of the last call made on the sampler
  handles,             \* what self.logLmin, self.logLmax, self.manager are
  resume_file,         \* the file self.resume_file on disk
  resumed              \* outcome of the last NestedSampler.resume call

vars == <<pc, cfg, live_points, nested_samples, insertion_indices, rolling_p,
          accepted, rejected, acceptance, iteration, logLmin, logLmax,
          condition, max_count, last_updated, uninformed_sampling, proposal,
          state, counter, hist, ret, handles, resume_file, resumed>>

\* what only checkpoint and resume touch
files == <<handles, resume_file, resumed>>

\* ------------------------------------------------- _NSintegralState
\* reset(): logZ = -inf (stored 0), one dummy sample enclosing the whole prior
reset(nlive) ==
  [nlive |-> nlive, iteration |-> 0, logZ |-> exp(NegInf), logw |-> 0, info |-> 0,
   logLs |-> <<NegInf>>, log_vols |-> <<0>>]

\* logL <= self.logLs[-1]: the call logs a warning
NonMonotonic(st, logL) == logL <= st.logLs[Len(st.logLs)]

\* exp(Wt - logZ) * logL + exp(oldZ - logZ) * (info + oldZ) - logZ as floating
\* point evaluates it, a log-value: with logL = -inf the first product is
\* 0 * -inf or exp(-inf + inf) * -inf, with oldZ = -inf the second one is, and
\* both are NaN; on finite operands it is the weighted mean minus logZ
InfoUpdate(oldZ, logZ, Wt, logL, info) ==
  IF ~IsFinite(logL) \/ ~IsFiniteStored(oldZ) \/ ~IsFiniteStored(logZ) THEN NaN
  ELSE ((Wt * logL + oldZ * (info + LogStored(oldZ))) \div logZ) - LogStored(logZ)

\* the information estimate after a call: updated only on finite operands, and
\* a NaN result is replaced by 0
InfoAfter(oldZ, logZ, Wt, logL, info) ==
  IF IsFiniteStored(oldZ) /\ IsFiniteStored(logZ) /\ IsFinite(logL)
  THEN LET v == InfoUpdate(oldZ, logZ, Wt, logL, info)
       IN IF v = NaN THEN 0 ELSE v
  ELSE info

incrementReplace(st, logL, nlive) ==
  LET logt == 0 - (Den \div nlive)
      Wt == (exp(Add(st.logw, logL)) * logsubexp0(logt)) \div Scale
  IN [st EXCEPT !.logZ = Wt,
                !.info = InfoAfter(st.logZ, Wt, Wt, logL, st.info),
                !.logw = st.logw + logt,
                !.iteration = st.iteration + 1,
                !.logLs = Append(st.logLs, logL),
                !.log_vols = Append(st.log_vols, st.logw + logt)]

incrementDropLogL(st, logL, nlive) ==
  LET logt == 0 - (Den \div nlive)
      Wt == (exp(st.logw) * logsubexp0(logt)) \div Scale
  IN [st EXCEPT !.logZ = logaddexp(st.logZ, Wt),
                !.info = InfoAfter(st.logZ, logaddexp(st.logZ, Wt), Wt, logL, st.info),
                !.logw = st.logw + logt,
                !.iteration = st.iteration + 1,
                !.logLs = Append(st.logLs, logL),
                !.log_vols = Append(st.log_vols, st.logw + logt)]

incrementSkipNonMonotonic(st, logL, nlive) ==
  LET logt == 0 - (Den \div nlive)
      Wt == (exp(Add(st.logw, logL)) * logsubexp0(logt)) \div Scale
  IN IF NonMonotonic(st, logL) THEN st
     ELSE [st EXCEPT !.logZ = logaddexp(st.logZ, Wt),
                     !.info = InfoAfter(st.logZ, logaddexp(st.logZ, Wt), Wt, logL, st.info),
                     !.logw = st.logw + logt,
                     !.iteration = st.iteration + 1,
                     !.logLs = Append(st.logLs, logL),
                     !.log_vols = Append(st.log_vols, st.logw + logt)]

incrementInfoUnguarded(st, logL, nlive) ==
  LET logt == 0 - (Den \div nlive)
      Wt == (exp(Add(st.logw, logL)) * logsubexp0(logt)) \div Scale
  IN [st EXCEPT !.logZ = logaddexp(st.logZ, Wt),
                !.info = InfoUpdate(st.logZ, logaddexp(st.logZ, Wt), Wt, logL, st.info),
                !.logw = st.logw + logt,
                !.iteration = st.iteration + 1,
                !.logLs = Append(st.logLs, logL),
                !.log_vols = Append(st.log_vols, st.logw + logt)]

incrementKeepsIteration(st, logL, nlive) ==
  LET logt == 0 - (Den \div nlive)
      Wt == (exp(Add(st.logw, logL)) * logsubexp0(logt)) \div Scale
  IN [st EXCEPT !.logZ = logaddexp(st.logZ, Wt),
                !.info = InfoAfter(st.logZ, logaddexp(st.logZ, Wt), Wt, logL, st.info),
                !.logw = st.logw + logt,
                !.logLs = Append(st.logLs, logL),
                !.log_vols = Append(st.log_vols, st.logw + logt)]

\* increment(logL, nlive) with an explicit effective nlive
increment(st, logL, nlive) ==
  LET logt == 0 - (Den \div nlive)
      Wt == (exp(Add(st.logw, logL)) * logsubexp0(logt)) \div Scale
  IN [st EXCEPT !.logZ = logaddexp(st.logZ, Wt),
                !.info = InfoAfter(st.logZ, logaddexp(st.logZ, Wt), Wt, logL, st.info),
                !.logw = st.logw + logt,
                !.iteration = st.iteration + 1,
                !.logLs = Append(st.logLs, logL),
                !.log_vols = Append(st.log_vols, st.logw + logt)]

\* increment(logL): nlive is None and defaults to self.nlive
incrementDefault(st, logL) == increment(st, logL, st.nlive)

\* ------------------------------------------------- live points
\* numpy.searchsorted(a, v), side 'left', on the logL column: bisection
RECURSIVE Bisect(_, _, _, _)
Bisect(a, v, lo, hi) ==
  IF lo >= hi THEN lo
  ELSE LET mid == lo + ((hi - lo) \div 2)
       IN IF a[mid + 1].logL < v THEN Bisect(a, v, mid + 1, hi)
          ELSE Bisect(a, v, lo, mid)

searchsorted(a, v) == Bisect(a, v, 0, Len(a))

insert_live_point_keep(lps, live_point) ==
  LET index == searchsorted(lps, live_point.logL)
  IN [live_points |-> SubSeq(lps, 1, index) \o <<live_point>>
                        \o SubSeq(lps, index + 1, Len(lps)),
      index |-> index - 1]

insert_live_point_rank(lps, live_point) ==
  LET index == searchsorted(lps, live_point.logL)
  IN [live_points |-> SubSeq(lps, 2, index) \o <<live_point>>
                        \o SubSeq(lps, index + 1, Len(lps)),
      index |-> index]

\* insert_live_point: the new array and the returned index
insert_live_point(lps, live_point) ==
  LET index == searchsorted(lps, live_point.logL)
  IN [live_points |-> SubSeq(lps, 2, index) \o <<live_point>>
                        \o SubSeq(lps, index + 1, Len(lps)),
      index |-> index - 1]

\* numpy.sort(live_points, order='logL')
RECURSIVE InsertSorted(_, _)
InsertSorted(s, p) ==
  IF s = <<>> THEN <<p>>
  ELSE IF p.logL < Head(s).logL THEN <<p>> \o s
  ELSE <<Head(s)>> \o InsertSorted(Tail(s), p)

SortByLogLKeep(s) == s

RECURSIVE SortByLogL(_)
SortByLogL(s) ==
  IF s = <<>> THEN <<>>
  ELSE InsertSorted(SortByLogL(SubSeq(s, 1, Len(s) - 1)), s[Len(s)])

IsSorted(s) == \A k \in 1..(Len(s) - 1) : s[k].logL <= s[k + 1].logL

RECURSIVE MaxLogL(_)
MaxLogL(s) == IF s = <<>> THEN NegInf ELSE Max(Head(s).logL, MaxLogL(Tail(s)))

\* the finite log-likelihoods of the model: -MaxL/Den .. 0
FiniteLogL == (0 - MaxL)..0
LogLValues == FiniteLogL \cup {NegInf}
LogPValues == {NegInf, 0}

\* ------------------------------------------------- check_insertion_indices
RECURSIVE CountBelow(_, _)
\* cumulative histogram: how many of the indices fall in the bins 0..j
CountBelow(ind, j) ==
  IF ind = <<>> THEN 0
  ELSE (IF Head(ind) >= 0 /\ Head(ind) <= j THEN 1 ELSE 0) + CountBelow(Tail(ind), j)

\* the larger of the two gaps at bin j, times nlive * n: cdf - analytic_cdf[j]
\* and analytic_cdf[j + 1] - cdf
Gap(indices, nlive, j) ==
  Max(CountBelow(indices, j) * nlive - j * Len(indices),
      (j + 1) * Len(indices) - CountBelow(indices, j) * nlive)

RECURSIVE MaxGap(_, _, _)
MaxGap(indices, nlive, j) ==
  IF j = 0 THEN Gap(indices, nlive, 0)
  ELSE Max(Gap(indices, nlive, j), MaxGap(indices, nlive, j - 1))

\* the K-S statistic D = max(gaps) as the fraction <<num, den>>, den = nlive * len(indices)
KSStatistic(indices, nlive) ==
  <<MaxGap(indices, nlive, nlive - 1), nlive * Len(indices)>>

\* the indices tested and the arguments handed to ksone.sf
check_insertion_indices(indices, nlive, rolling) ==
  LET tested == IF rolling /\ Len(indices) > nlive
                THEN SubSeq(indices, Len(indices) - nlive + 1, Len(indices))
                ELSE indices
  IN [D |-> KSStatistic(tested, nlive), n |-> nlive, tested |-> Len(tested)]

RollingPAfterAlways(rp, rolling, result) == Append(rp, result)

\* if rolling: self.rolling_p.append(p)
RollingPAfter(rp, rolling, result) == IF rolling THEN Append(rp, result) ELSE rp

\* ------------------------------------------------- constructor
\* the retraining schedules tried: <<cooldown, training_frequency>>
Schedules == {<<0, 1>>, <<2, 2>>}

\* constructor arguments tried; acceptance_threshold is the fraction <<num, den>>
\* and stopping (the tolerance) is in units of 1/Den; memory = 0 is the default
\* memory=False, n_periodic_checkpoint = 0 is the None the constructor assigns
Configs ==
  {[maximum_uninformed |-> mu, cooldown |-> sch[1], training_frequency |-> sch[2],
    train_on_empty |-> toe, acceptance_threshold |-> <<1, 2>>, stopping |-> 2,
    memory |-> 0, n_periodic_checkpoint |-> 0] :
     mu \in {0, 2, 3}, sch \in Schedules, toe \in BOOLEAN}

\* self.acceptance < self.acceptance_threshold
AcceptanceLow ==
  FracLess(acceptance[1], acceptance[2],
           cfg.acceptance_threshold[1], cfg.acceptance_threshold[2])

\* proposal.draw calls are counted up to MaxDraws, where the count stops
CountDraws(n, k) == Min(n + k, MaxDraws)

Hist0 ==
  [draws |-> 0, passes |-> 0, flow_trained |-> FALSE, uninformed_trained |-> FALSE,
   training_data |-> <<>>, switched |-> 0, checkpointed |-> <<>>, pending |-> 0]

\* no check_state call to report
CheckNone ==
  [force |-> FALSE, rejected |-> FALSE, low |-> FALSE, populated |-> FALSE,
   iteration |-> 0, before |-> 0, uninformed |-> FALSE, train |-> FALSE,
   cooling |-> FALSE, trained |-> FALSE, first |-> FALSE, archived |-> 0]

InitialRejectedZero == 1 - 1

\* self.rejected = 1
InitialRejected == 1

\* nothing has been called yet
Ret0 ==
  [op |-> "none", index |-> 0, id |-> 0, oldZ |-> 0, value |-> 0, warned |-> FALSE,
   raised |-> "none", check |-> CheckNone,
   diag |-> [rolling |-> FALSE, n |-> 0, tested |-> 0],
   setup |-> <<>>]

\* NestedSampler.__init__
InitSampler(c) ==
  /\ pc = "new"
  /\ cfg = c
  /\ live_points = <<>>
  /\ nested_samples = <<>>
  /\ insertion_indices = <<>>
  /\ rolling_p = <<>>
  /\ accepted = 0
  /\ rejected = InitialRejected
  /\ acceptance = <<1, 1>>
  /\ iteration = 0
  /\ logLmin = NegInf
  /\ logLmax = NegInf
  /\ condition = PosInf
  /\ max_count = 0
  /\ last_updated = 0
  /\ uninformed_sampling = (c.maximum_uninformed # 0)
  /\ proposal = "unset"
  /\ state = reset(NLive)
  /\ counter = 0
  /\ hist = Hist0
  /\ ret = Ret0
  /\ handles = [logLmin |-> "float", logLmax |-> "float", manager |-> FALSE]
  /\ resume_file = [exists |-> FALSE, content |-> <<>>]
  /\ resumed = [status |-> "none", source |-> "none", obj |-> <<>>]

Init == \E c \in Configs : InitSampler(c)

\* ------------------------------------------------- check_state
\* the ids of a sequence of points
Ids(points) == [k \in 1..Len(points) |-> points[k].id]

\* np.concatenate([training_data, self.nested_samples[-self.memory].copy()]):
\* nested_samples is a list, so the second operand is one archived record, a
\* zero-dimensional array, and concatenate raises ValueError
Concatenate(lps, archived) ==
  [raised |-> "ValueError", data |-> <<>>]

\* the training data of a retrain: the live points, extended when memory is set
\* and at least memory points are archived
TrainingData(lps, ns) ==
  IF cfg.memory # 0 /\ Len(ns) # 0 /\ Len(ns) >= cfg.memory
  THEN Concatenate(lps, ns[Len(ns) - cfg.memory + 1])
  ELSE [raised |-> "none", data |-> Ids(lps)]

check_state_keeps_flag(force, rej, populated, it) ==
  LET switch == uninformed_sampling
                /\ ((rej /\ AcceptanceLow) \/ it >= cfg.maximum_uninformed)
      prop == IF switch THEN "flow" ELSE proposal
      unin == uninformed_sampling
      train == IF force THEN TRUE
               ELSE IF rej /\ AcceptanceLow THEN TRUE
               ELSE IF ~populated THEN cfg.train_on_empty
               ELSE IF (it - last_updated) % cfg.training_frequency = 0 THEN ~unin
               ELSE FALSE
      cooling == it - last_updated < cfg.cooldown /\ ~force
      td == IF train /\ ~cooling THEN TrainingData(live_points, nested_samples)
            ELSE [raised |-> "none", data |-> <<>>]
      do == train /\ ~cooling /\ td.raised = "none"
  IN [proposal |-> prop, uninformed_sampling |-> unin, switch |-> switch,
      train |-> train, cooling |-> cooling, trained |-> do,
      raised |-> td.raised, training_data |-> td.data,
      last_updated |-> IF do THEN it ELSE last_updated]

check_state_flat(force, rej, populated, it) ==
  LET switch == uninformed_sampling
                /\ ((rej /\ AcceptanceLow) \/ it >= cfg.maximum_uninformed)
      prop == IF switch THEN "flow" ELSE proposal
      unin == IF switch THEN FALSE ELSE uninformed_sampling
      train == IF force THEN TRUE
               ELSE IF rej /\ AcceptanceLow THEN TRUE
               ELSE IF ~populated /\ cfg.train_on_empty THEN TRUE
               ELSE IF (it - last_updated) % cfg.training_frequency = 0 THEN ~unin
               ELSE FALSE
      cooling == it - last_updated < cfg.cooldown /\ ~force
      td == IF train /\ ~cooling THEN TrainingData(live_points, nested_samples)
            ELSE [raised |-> "none", data |-> <<>>]
      do == train /\ ~cooling /\ td.raised = "none"
  IN [proposal |-> prop, uninformed_sampling |-> unin, switch |-> switch,
      train |-> train, cooling |-> cooling, trained |-> do,
      raised |-> td.raised, training_data |-> td.data,
      last_updated |-> IF do THEN it ELSE last_updated]

\* the fields check_state leaves behind; it is self.iteration at the call,
\* populated is the active proposal's answer; train is the local flag, cooling
\* the cooldown test, trained whether proposal.train was called
check_state(force, rej, populated, it) ==
  LET switch == uninformed_sampling
                /\ ((rej /\ AcceptanceLow) \/ it >= cfg.maximum_uninformed)
      prop == IF switch THEN "flow" ELSE proposal
      unin == IF switch THEN FALSE ELSE uninformed_sampling
      train == IF force THEN TRUE
               ELSE IF rej /\ AcceptanceLow THEN TRUE
               ELSE IF ~populated THEN cfg.train_on_empty
               ELSE IF (it - last_updated) % cfg.training_frequency = 0 THEN ~unin
               ELSE FALSE
      cooling == it - last_updated < cfg.cooldown /\ ~force
      td == IF train /\ ~cooling THEN TrainingData(live_points, nested_samples)
            ELSE [raised |-> "none", data |-> <<>>]
      do == train /\ ~cooling /\ td.raised = "none"
  IN [proposal |-> prop, uninformed_sampling |-> unin, switch |-> switch,
      train |-> train, cooling |-> cooling, trained |-> do,
      raised |-> td.raised, training_data |-> td.data,
      last_updated |-> IF do THEN it ELSE last_updated]

\* the history after a check_state call with outcome cs
HistAfterCheck(h, cs, lps) ==
  [h EXCEPT !.switched = h.switched + (IF cs.switch THEN 1 ELSE 0),
            !.flow_trained = h.flow_trained \/ (cs.trained /\ cs.proposal = "flow"),
            !.uninformed_trained = h.uninformed_trained
                                     \/ (cs.trained /\ cs.proposal = "uninformed"),
            !.training_data = IF cs.trained THEN cs.training_data
                              ELSE h.training_data]

\* the report of a check_state call with outcome cs: its arguments, what it
\* read (acceptance low, last_updated before, the archive size, whether any
\* retrain had happened) and what it decided
CheckReport(force, rej, populated, it, cs) ==
  [Ret0 EXCEPT !.op = "check_state", !.raised = cs.raised,
               !.check = [force |-> force, rejected |-> rej, low |-> AcceptanceLow,
                          populated |-> populated, iteration |-> it,
                          before |-> last_updated,
                          uninformed |-> cs.uninformed_sampling,
                          train |-> cs.train, cooling |-> cs.cooling,
                          trained |-> cs.trained,
                          first |-> ~(hist.flow_trained \/ hist.uninformed_trained),
                          archived |-> Len(nested_samples)]]

\* ------------------------------------------------- the sampling loop
\* populate_live_points: nlive accepted prior draws, sorted by logL
Initialise ==
  /\ pc = "new"
  /\ \E ls \in [1..NLive -> FiniteLogL] :
       LET drawn == [k \in 1..NLive |-> [id |-> k, logL |-> ls[k], logP |-> 0]]
       IN /\ live_points' = SortByLogL(drawn)
          /\ logLmax' = MaxLogL(drawn)
  /\ proposal' = "uninformed"
  /\ hist' = [hist EXCEPT !.draws = CountDraws(0, NLive)]
  /\ pc' = "loop"
  /\ UNCHANGED <<files, cfg, nested_samples, insertion_indices, rolling_p, accepted,
                 rejected, acceptance, iteration, logLmin, condition, max_count,
                 last_updated, uninformed_sampling, state, counter, ret>>

\* exp(tolerance), to compare with the stored condition
Tolerance == ExpPos(cfg.stopping)

\* logaddexp(logZ, logLmax - iteration/nlive) - logZ, stored as Scale * exp(.)
Condition(logZ, lmax, it, nlive) ==
  LET M == exp(Add(lmax, 0 - (it * (Den \div nlive))))
  IN IF logZ = 0 THEN (IF M = 0 THEN NaN ELSE PosInf)
     ELSE (logaddexp(logZ, M) * Scale) \div logZ

\* while self.condition > self.tolerance: self.check_state()
LoopCheckState ==
  /\ pc = "loop"
  /\ condition > Tolerance
  /\ iteration < MaxIter
  /\ \E populated \in BOOLEAN :
       LET cs == check_state(FALSE, FALSE, populated, iteration)
       IN /\ proposal' = cs.proposal
          /\ uninformed_sampling' = cs.uninformed_sampling
          /\ last_updated' = cs.last_updated
          /\ hist' = HistAfterCheck(hist, cs, live_points)
          /\ ret' = CheckReport(FALSE, FALSE, populated, iteration, cs)
          /\ pc' = IF cs.raised = "none" THEN "consume" ELSE "raised"
  /\ UNCHANGED <<files, cfg, live_points, nested_samples, insertion_indices, rolling_p,
                 accepted, rejected, acceptance, iteration, logLmin, logLmax,
                 condition, max_count, state, counter>>

WorstLast(lps) == lps[Len(lps)]

\* worst = self.live_points[0]
Worst(lps) == lps[1]

\* consume_sample up to its replacement loop: the worst point is archived
ConsumePop ==
  /\ pc = "consume"
  /\ LET worst == Worst(live_points)
         st == incrementDefault(state, worst.logL)
     IN /\ logLmin' = worst.logL
        /\ state' = st
        /\ nested_samples' = Append(nested_samples, worst)
        /\ condition' = Condition(st.logZ, logLmax, iteration, NLive)
  /\ iteration' = iteration + 1
  /\ counter' = 0
  /\ ret' = [Ret0 EXCEPT !.op = "consume_sample"]
  /\ pc' = "yield"
  /\ UNCHANGED <<files, cfg, live_points, insertion_indices, rolling_p, accepted,
                 rejected, acceptance, logLmax, max_count, last_updated,
                 uninformed_sampling, proposal, hist>>

EarlyExitLate(c) ==
  FracLess(1, c - 1, cfg.acceptance_threshold[1], cfg.acceptance_threshold[2])

\* (1 / counter) < self.acceptance_threshold
EarlyExit(c) ==
  FracLess(1, c, cfg.acceptance_threshold[1], cfg.acceptance_threshold[2])

\* one draw of yield_sample that improves on logLmin: the pass yields the new
\* point, consume_sample inserts it and leaves its loop
DrawAccept ==
  /\ pc = "yield"
  /\ \E lP \in LogPValues \ {NegInf}, lL \in LogLValues :
       LET newparam == [id |-> NLive + hist.passes + 1, logL |-> lL, logP |-> lP]
           ins == insert_live_point(live_points, newparam)
       IN /\ newparam.logL > logLmin
          /\ logLmax' = Max(logLmax, newparam.logL)
          /\ live_points' = ins.live_points
          /\ insertion_indices' = Append(insertion_indices, ins.index)
          /\ ret' = [Ret0 EXCEPT !.op = "consume_sample", !.index = ins.index,
                                 !.id = newparam.id, !.value = lL]
  /\ accepted' = accepted + 1
  /\ acceptance' = <<accepted + 1, accepted + 1 + rejected>>
  /\ hist' = [hist EXCEPT !.draws = CountDraws(hist.draws, 1), !.passes = hist.passes + 1,
                          !.pending = 0]
  /\ counter' = 0
  /\ pc' = "update"
  /\ UNCHANGED <<files, cfg, nested_samples, rolling_p, rejected, iteration, logLmin,
                 condition, max_count, last_updated, uninformed_sampling,
                 proposal, state>>

\* the candidate of one draw is no improvement: outside the prior, or logL <= logLmin
NoImprovement(lP, lL) == IF lP = NegInf THEN TRUE ELSE ~(lL > logLmin)

SomeCandidateFails == \E lP \in LogPValues, lL \in LogLValues : NoImprovement(lP, lL)

\* one failed draw below the early exit: the pass goes on
DrawRetry ==
  /\ pc = "yield"
  /\ SomeCandidateFails = TRUE
  /\ ~EarlyExit(counter + 1)
  /\ counter' = counter + 1
  /\ hist' = [hist EXCEPT !.draws = CountDraws(hist.draws, 1),
                          !.pending = hist.pending + 1]
  /\ UNCHANGED <<files, pc, cfg, live_points, nested_samples, insertion_indices,
                 rolling_p, accepted, rejected, acceptance, iteration, logLmin,
                 logLmax, condition, max_count, last_updated,
                 uninformed_sampling, proposal, state, ret>>

MaxCountAfterSame(mc) == mc

\* self.max_count += 1
MaxCountAfter(mc) == mc + 1

\* one failed draw at the early exit: the pass yields the old point, consume_sample
\* counts a rejection, calls check_state(rejected=True) and starts a new pass
DrawReject ==
  /\ pc = "yield"
  /\ rejected < MaxRejected
  /\ SomeCandidateFails = TRUE
  /\ EarlyExit(counter + 1)
  /\ LET proposed == nested_samples[Len(nested_samples)]
     IN ~(proposed.logL > logLmin)
  /\ max_count' = MaxCountAfter(max_count)
  /\ rejected' = rejected + 1
  /\ \E populated \in BOOLEAN :
       LET cs == check_state(FALSE, TRUE, populated, iteration)
       IN /\ proposal' = cs.proposal
          /\ uninformed_sampling' = cs.uninformed_sampling
          /\ last_updated' = cs.last_updated
          /\ hist' = [HistAfterCheck(hist, cs, live_points)
                        EXCEPT !.draws = CountDraws(hist.draws, 1), !.passes = hist.passes + 1,
                               !.pending = hist.pending + 1]
          /\ ret' = CheckReport(FALSE, TRUE, populated, iteration, cs)
          /\ pc' = IF cs.raised = "none" THEN pc ELSE "raised"
  /\ counter' = 0
  /\ UNCHANGED <<files, cfg, live_points, nested_samples, insertion_indices,
                 rolling_p, accepted, acceptance, iteration, logLmin, logLmax,
                 condition, state>>

\* self.n_periodic_checkpoint is not None and i % self.n_periodic_checkpoint == 1:
\* i is a local of nested_sampling_loop that is assigned only after the loop,
\* so reading it raises UnboundLocalError
PeriodicTest ==
  IF cfg.n_periodic_checkpoint = 0 THEN [raised |-> "none", checkpoint |-> FALSE]
  ELSE [raised |-> "UnboundLocalError", checkpoint |-> FALSE]

\* update_state, then the periodic checkpoint test
UpdateState ==
  /\ pc = "update"
  /\ rolling_p' = IF iteration % NLive = 0
                  THEN RollingPAfter(rolling_p, TRUE,
                                     check_insertion_indices(insertion_indices, NLive, TRUE))
                  ELSE rolling_p
  /\ pc' = IF PeriodicTest.raised = "none" THEN "loop" ELSE "raised"
  /\ ret' = [Ret0 EXCEPT !.op = "update_state", !.raised = PeriodicTest.raised]
  /\ UNCHANGED <<files, cfg, live_points, nested_samples, insertion_indices, accepted,
                 rejected, acceptance, iteration, logLmin, logLmax, condition,
                 max_count, last_updated, uninformed_sampling, proposal, state,
                 counter, hist>>

LoopExitAnyTime ==
  /\ pc = "loop"
  /\ pc' = "drain"
  /\ counter' = 0
  /\ UNCHANGED <<files, cfg, live_points, nested_samples, insertion_indices, rolling_p,
                 accepted, rejected, acceptance, iteration, logLmin, logLmax,
                 condition, max_count, last_updated, uninformed_sampling,
                 proposal, state, hist, ret>>

\* the loop ends: condition > tolerance is false
LoopExit ==
  /\ pc = "loop"
  /\ ~(condition > Tolerance)
  /\ pc' = "drain"
  /\ counter' = 0
  /\ UNCHANGED <<files, cfg, live_points, nested_samples, insertion_indices, rolling_p,
                 accepted, rejected, acceptance, iteration, logLmin, logLmax,
                 condition, max_count, last_updated, uninformed_sampling,
                 proposal, state, hist, ret>>

EffectiveNliveConstant(i) == NLive

\* nlive=self.nlive-i
EffectiveNlive(i) == NLive - i

\* final adjustments: for i, p in enumerate(self.live_points); counter is i
Drain ==
  /\ pc = "drain"
  /\ counter < Len(live_points)
  /\ LET p == live_points[counter + 1]
     IN /\ state' = increment(state, p.logL, EffectiveNlive(counter))
        /\ ret' = [Ret0 EXCEPT !.op = "increment", !.oldZ = state.logZ,
                               !.index = EffectiveNlive(counter), !.value = p.logL,
                               !.warned = NonMonotonic(state, p.logL)]
        /\ nested_samples' = Append(nested_samples, p)
  /\ counter' = counter + 1
  /\ UNCHANGED <<files, pc, cfg, live_points, insertion_indices, rolling_p, accepted,
                 rejected, acceptance, iteration, logLmin, logLmax, condition,
                 max_count, last_updated, uninformed_sampling, proposal, hist>>

\* nest2pos.log_integrate_log_trap: the trapezoidal rule over the history,
\* sum of (L[k] + L[k+1]) / 2 * (X[k] - X[k+1]), as a stored value
RECURSIVE TrapSum(_, _, _)
TrapSum(logLs, log_vols, k) ==
  IF k >= Len(logLs) THEN 0
  ELSE (((exp(logLs[k]) + exp(logLs[k + 1])) \div 2)
          * (exp(log_vols[k]) - exp(log_vols[k + 1]))) \div Scale
       + TrapSum(logLs, log_vols, k + 1)

log_integrate_log_trap(logLs, log_vols) == TrapSum(logLs, log_vols, 1)

finaliseResets(st) ==
  [reset(st.nlive) EXCEPT !.logZ = log_integrate_log_trap(st.logLs, st.log_vols)]

\* _NSintegralState.finalise
finalise(st) == [st EXCEPT !.logZ = log_integrate_log_trap(st.logLs, st.log_vols)]

\* the drain is over: self.state.finalise(), the run returns
Finalise ==
  /\ pc = "drain"
  /\ counter = Len(live_points)
  /\ state' = finalise(state)
  /\ ret' = [Ret0 EXCEPT !.op = "finalise", !.oldZ = state.logZ,
                         !.value = finalise(state).logZ]
  /\ pc' = "done"
  /\ UNCHANGED <<files, cfg, live_points, nested_samples, insertion_indices, rolling_p,
                 accepted, rejected, acceptance, iteration, logLmin, logLmax,
                 condition, max_count, last_updated, uninformed_sampling,
                 proposal, counter, hist>>

Next ==
  \/ Initialise
  \/ LoopCheckState
  \/ ConsumePop
  \/ DrawAccept
  \/ DrawRetry
  \/ DrawReject
  \/ UpdateState
  \/ LoopExit
  \/ Drain
  \/ Finalise

Spec == Init /\ [][Next]_vars

\* ------------------------------------------------- insert_live_point alone
\* the default constructor arguments of the model
Config0 ==
  [maximum_uninformed |-> 2, cooldown |-> 2, training_frequency |-> 2,
   train_on_empty |-> TRUE, acceptance_threshold |-> <<1, 2>>, stopping |-> 2,
   memory |-> 0, n_periodic_checkpoint |-> 0]

\* insert_live_point called with a point of arbitrary logL on a populated sampler
InsertCall ==
  /\ pc = "loop"
  /\ hist.passes < MaxIter
  /\ \E lL \in LogLValues :
       LET live_point == [id |-> NLive + hist.passes + 1, logL |-> lL, logP |-> 0]
           ins == insert_live_point(live_points, live_point)
       IN /\ live_points' = ins.live_points
          /\ ret' = [Ret0 EXCEPT !.op = "insert_live_point", !.index = ins.index,
                                 !.id = live_point.id, !.value = lL]
  /\ hist' = [hist EXCEPT !.passes = hist.passes + 1]
  /\ UNCHANGED <<files, pc, cfg, nested_samples, insertion_indices, rolling_p, accepted,
                 rejected, acceptance, iteration, logLmin, logLmax, condition,
                 max_count, last_updated, uninformed_sampling, proposal, state,
                 counter>>

NextInsert ==
  \/ Initialise
  \/ InsertCall

InitInsert == InitSampler(Config0)

SpecInsert == InitInsert /\ [][NextInsert]_vars

\* ------------------------------------------------- _NSintegralState alone
\* increment called with an arbitrary logL and effective nlive
IncrementCall ==
  /\ pc = "new"
  /\ state.iteration < MaxIter
  /\ \E lL \in LogLValues, nl \in 1..NLive :
       /\ state' = increment(state, lL, nl)
       /\ ret' = [Ret0 EXCEPT !.op = "increment", !.oldZ = state.logZ,
                              !.index = nl, !.value = lL,
                              !.warned = NonMonotonic(state, lL)]
  /\ UNCHANGED <<files, pc, cfg, live_points, nested_samples, insertion_indices,
                 rolling_p, accepted, rejected, acceptance, iteration, logLmin,
                 logLmax, condition, max_count, last_updated,
                 uninformed_sampling, proposal, counter, hist>>

\* reset called again
ResetCall ==
  /\ pc = "new"
  /\ state.iteration > 0
  /\ state' = reset(state.nlive)
  /\ ret' = [Ret0 EXCEPT !.op = "reset"]
  /\ UNCHANGED <<files, pc, cfg, live_points, nested_samples, insertion_indices,
                 rolling_p, accepted, rejected, acceptance, iteration, logLmin,
                 logLmax, condition, max_count, last_updated,
                 uninformed_sampling, proposal, counter, hist>>

NextIntegrator ==
  \/ IncrementCall
  \/ ResetCall

InitIntegrator == InitSampler(Config0)

SpecIntegrator == InitIntegrator /\ [][NextIntegrator]_vars

\* ------------------------------------------------- checkpoint and resume
\* the parameter names of the model the sampler was built with; they are the
\* field names of live_points besides logP and logL
Names == <<"x", "y">>

\* self.__dict__ as __getstate__ leaves it: llmin and llmax added, logLmin,
\* logLmax, manager and model deleted
StateDict ==
  [nlive |-> NLive, names |-> Names, live_points |-> live_points,
   nested_samples |-> nested_samples, insertion_indices |-> insertion_indices,
   rolling_p |-> rolling_p, accepted |-> accepted, rejected |-> rejected,
   acceptance |-> acceptance, iteration |-> iteration, condition |-> condition,
   max_count |-> max_count, last_updated |-> last_updated,
   uninformed_sampling |-> uninformed_sampling, proposal |-> proposal,
   state |-> state, llmin |-> logLmin, llmax |-> logLmax]

\* __getstate__: self.logLmin.value and self.logLmax.value exist only on the
\* shared values of a manager, del state['manager'] needs the attribute
getstate(h) ==
  IF h.logLmin # "shared" \/ h.logLmax # "shared"
  THEN [raised |-> "AttributeError", state |-> <<>>]
  ELSE IF ~h.manager THEN [raised |-> "KeyError", state |-> <<>>]
  ELSE [raised |-> "none", state |-> <<StateDict>>]

\* checkpoint(), called between two iterations: open(resume_file, "wb") creates
\* or empties the file, pickle.dump writes what __getstate__ returns
Checkpoint ==
  /\ pc = "loop"
  /\ LET gs == getstate(handles)
     IN /\ resume_file' = [exists |-> TRUE, content |-> gs.state]
        /\ ret' = [Ret0 EXCEPT !.op = "checkpoint", !.raised = gs.raised]
  /\ hist' = [hist EXCEPT !.checkpointed = <<StateDict>>]
  /\ UNCHANGED <<pc, cfg, live_points, nested_samples, insertion_indices,
                 rolling_p, accepted, rejected, acceptance, iteration, logLmin,
                 logLmax, condition, max_count, last_updated,
                 uninformed_sampling, proposal, state, counter, handles, resumed>>

\* NestedSampler.resume(filename, manager, usermodel): pickle.load, then the
\* manager's shared values and the model are attached; nothing is compared
resume(file, source, usermodel) ==
  IF ~file.exists THEN [status |-> "FileNotFoundError", source |-> source, obj |-> <<>>]
  ELSE IF file.content = <<>> THEN [status |-> "EOFError", source |-> source, obj |-> <<>>]
  ELSE [status |-> "returned", source |-> source,
        obj |-> <<[saved |-> file.content[1], model |-> usermodel,
                   logLmin |-> file.content[1].llmin,
                   logLmax |-> file.content[1].llmax]>>]

\* the models a caller may hand to resume
UserModels == {<<"x", "y">>, <<"x", "z">>}

\* resume from the sampler's own resume file
ResumeOwn ==
  /\ pc = "loop"
  /\ \E usermodel \in UserModels :
       resumed' = resume(resume_file, "own", usermodel)
  /\ ret' = [Ret0 EXCEPT !.op = "resume"]
  /\ UNCHANGED <<pc, cfg, live_points, nested_samples, insertion_indices,
                 rolling_p, accepted, rejected, acceptance, iteration, logLmin,
                 logLmax, condition, max_count, last_updated,
                 uninformed_sampling, proposal, state, counter, hist, handles,
                 resume_file>>

\* a pickled sampler found on disk: nlive, the number of live points and the
\* parameter names are whatever the file holds
SavedSampler(nlive, npoints, names) ==
  [nlive |-> nlive, names |-> names,
   live_points |-> [k \in 1..npoints |-> [id |-> k, logL |-> 0, logP |-> 0]],
   nested_samples |-> <<>>, insertion_indices |-> <<>>, rolling_p |-> <<>>,
   accepted |-> 0, rejected |-> InitialRejected, acceptance |-> <<1, 1>>,
   iteration |-> 0, condition |-> PosInf, max_count |-> 0, last_updated |-> 0,
   uninformed_sampling |-> TRUE, proposal |-> "uninformed",
   state |-> reset(NLive), llmin |-> NegInf, llmax |-> 0]

ExternalFiles ==
  {[exists |-> TRUE, content |-> <<SavedSampler(n, k, nm)>>] :
     n \in {NLive, NLive + 1}, k \in {NLive, NLive + 1}, nm \in UserModels}

\* resume from a file some earlier session left behind
ResumeExternal ==
  /\ pc = "loop"
  /\ \E file \in ExternalFiles, usermodel \in UserModels :
       resumed' = resume(file, "external", usermodel)
  /\ ret' = [Ret0 EXCEPT !.op = "resume"]
  /\ UNCHANGED <<pc, cfg, live_points, nested_samples, insertion_indices,
                 rolling_p, accepted, rejected, acceptance, iteration, logLmin,
                 logLmax, condition, max_count, last_updated,
                 uninformed_sampling, proposal, state, counter, hist, handles,
                 resume_file>>

NextResume ==
  \/ Next
  \/ Checkpoint
  \/ ResumeOwn
  \/ ResumeExternal

InitResume == InitSampler(Config0)

SpecResume == InitResume /\ [][NextResume]_vars

\* ------------------------------------------------- options and direct calls
\* the options tried: <<memory, n_periodic_checkpoint>>; n_periodic_checkpoint
\* is set as an attribute after construction
Options == {<<0, 0>>, <<1, 0>>, <<0, 2>>}

OptionConfigs ==
  {[Config0 EXCEPT !.memory = o[1], !.n_periodic_checkpoint = o[2],
                   !.train_on_empty = toe] : o \in Options, toe \in BOOLEAN}

\* check_state called between two iterations with any arguments
CheckStateCall ==
  /\ pc = "loop"
  /\ \E force \in BOOLEAN, rej \in BOOLEAN, populated \in BOOLEAN :
       LET cs == check_state(force, rej, populated, iteration)
       IN /\ proposal' = cs.proposal
          /\ uninformed_sampling' = cs.uninformed_sampling
          /\ last_updated' = cs.last_updated
          /\ hist' = HistAfterCheck(hist, cs, live_points)
          /\ ret' = CheckReport(force, rej, populated, iteration, cs)
          /\ pc' = IF cs.raised = "none" THEN pc ELSE "raised"
  /\ UNCHANGED <<files, cfg, live_points, nested_samples, insertion_indices, rolling_p,
                 accepted, rejected, acceptance, iteration, logLmin, logLmax,
                 condition, max_count, state, counter>>

NextOptions ==
  \/ Next
  \/ CheckStateCall

InitOptions == \E c \in OptionConfigs : InitSampler(c)

SpecOptions == InitOptions /\ [][NextOptions]_vars

\* ------------------------------------------------- the diagnostic called directly
\* check_insertion_indices(rolling) called on a finished run, as a user would;
\* diag reports the variant, the sample size given to ksone.sf and the ranks tested
DiagnosticCall ==
  /\ pc = "done"
  /\ Len(rolling_p) < MaxIter
  /\ \E rolling \in BOOLEAN :
       LET result == check_insertion_indices(insertion_indices, NLive, rolling)
       IN /\ rolling_p' = RollingPAfter(rolling_p, rolling, result)
          /\ ret' = [Ret0 EXCEPT !.op = "check_insertion_indices",
                                 !.diag = [rolling |-> rolling, n |-> result.n,
                                           tested |-> result.tested]]
  /\ UNCHANGED <<files, pc, cfg, live_points, nested_samples, insertion_indices,
                 accepted, rejected, acceptance, iteration, logLmin, logLmax,
                 condition, max_count, last_updated, uninformed_sampling,
                 proposal, state, counter, hist>>

NextDiagnostic ==
  \/ Next
  \/ DiagnosticCall

InitDiagnostic == InitSampler(Config0)

SpecDiagnostic == InitDiagnostic /\ [][NextDiagnostic]_vars

\* ------------------------------------------------- setup by name
\* Python's None, and a key that is absent; no name of the model is spelled so
None == "None"

\* REPARAMETERISATION_DICT
REPARAMETERISATION_DICT ==
  [default |-> "RescaleToBounds", rescaletobounds |-> "RescaleToBounds"]

\* get_reparameterisation(reparameterisation)
get_reparameterisation(reparameterisation) ==
  LET rc == IF reparameterisation \in DOMAIN REPARAMETERISATION_DICT
            THEN REPARAMETERISATION_DICT[reparameterisation]
            ELSE None
  IN IF rc = None THEN [raised |-> "RuntimeError", value |-> None]
     ELSE [raised |-> "none", value |-> rc]

\* the names get_reparameterisation is called with
ReparameterisationNames == {"default", "rescaletobounds", "Default", "angle", None}

\* flows and activations of setup_model
flows ==
  [realnvp |-> "FlexibleRealNVP", maf |-> "MaskedAutoregressiveFlow",
   frealnvp |-> "FlexibleRealNVP", spline |-> "NeuralSplineFlow"]

activations == [relu |-> "F.relu", tanh |-> "F.tanh", swish |-> "silu", silu |-> "silu"]

\* str.lower on the flow types of the model
Lower(f) == IF f = "RealNVP" THEN "realnvp" ELSE IF f = "MAF" THEN "maf" ELSE f

\* an activation given as a function, not as a name
Callable == "<function>"

\* config['kwargs'] is absent or None
NoKwargs == [given |-> FALSE, activation |-> None, mask |-> FALSE]

\* the configurations setup_model is called with: kwargs is None or holds an
\* activation (absent, a name, or a function) and a mask (None or given)
SetupConfigs ==
  [kwargs : {NoKwargs} \cup [given : {TRUE},
                             activation : {None, "relu", "swish", "gelu", Callable},
                             mask : BOOLEAN],
   flow : {None, "CustomFlow"},
   ftype : {None, "realnvp", "RealNVP", "maf", "glow"},
   device_tag : {None, "cpu"}]

setup_model_default(config) ==
  LET k == config.kwargs
      named == k.given /\ k.activation # None /\ k.activation # Callable
      activation == IF ~k.given THEN None
                    ELSE IF named /\ k.activation \in DOMAIN activations
                    THEN activations[k.activation]
                    ELSE k.activation
      f == config.ftype
      masked == k.given /\ k.mask
      built == IF config.flow # None THEN config.flow
               ELSE IF f # None THEN (IF Lower(f) \in DOMAIN flows THEN flows[Lower(f)]
                                     ELSE flows["realnvp"])
               ELSE None
  IN IF named /\ k.activation \notin DOMAIN activations
     THEN [raised |-> "RuntimeError", model |-> None, activation |-> None]
     ELSE IF config.flow = None /\ f # None /\ masked
               /\ f \notin {"realnvp", "frealnvp"}
     THEN [raised |-> "RuntimeError", model |-> None, activation |-> activation]
     ELSE IF built = None \/ config.device_tag = None
     THEN [raised |-> "UnboundLocalError", model |-> built, activation |-> activation]
     ELSE [raised |-> "none", model |-> built, activation |-> activation]

\* setup_model(config): what it raises, the flow built (None when none was),
\* and the activation handed to it
setup_model(config) ==
  LET k == config.kwargs
      named == k.given /\ k.activation # None /\ k.activation # Callable
      activation == IF ~k.given THEN None
                    ELSE IF named /\ k.activation \in DOMAIN activations
                    THEN activations[k.activation]
                    ELSE k.activation
      f == config.ftype
      masked == k.given /\ k.mask
      built == IF config.flow # None THEN config.flow
               ELSE IF f # None /\ Lower(f) \in DOMAIN flows THEN flows[Lower(f)]
               ELSE None
  IN IF named /\ k.activation \notin DOMAIN activations
     THEN [raised |-> "RuntimeError", model |-> None, activation |-> None]
     ELSE IF config.flow = None /\ f # None /\ Lower(f) \notin DOMAIN flows
     THEN [raised |-> "RuntimeError", model |-> None, activation |-> activation]
     ELSE IF config.flow = None /\ f # None /\ masked
               /\ f \notin {"realnvp", "frealnvp"}
     THEN [raised |-> "RuntimeError", model |-> None, activation |-> activation]
     ELSE IF built = None \/ config.device_tag = None
     THEN [raised |-> "UnboundLocalError", model |-> built, activation |-> activation]
     ELSE [raised |-> "none", model |-> built, activation |-> activation]

\* get_reparameterisation called with a name
GetReparameterisationCall ==
  /\ \E name \in ReparameterisationNames :
       ret' = [Ret0 EXCEPT !.op = "get_reparameterisation",
                           !.raised = get_reparameterisation(name).raised,
                           !.setup = <<[name |-> name,
                                        value |-> get_reparameterisation(name).value]>>]
  /\ UNCHANGED <<files, pc, cfg, live_points, nested_samples, insertion_indices,
                 rolling_p, accepted, rejected, acceptance, iteration, logLmin,
                 logLmax, condition, max_count, last_updated,
                 uninformed_sampling, proposal, state, counter, hist>>

\* setup_model called with a configuration
SetupModelCall ==
  /\ \E config \in SetupConfigs :
       ret' = [Ret0 EXCEPT !.op = "setup_model",
                           !.raised = setup_model(config).raised,
                           !.setup = <<[config |-> config,
                                        model |-> setup_model(config).model,
                                        activation |-> setup_model(config).activation]>>]
  /\ UNCHANGED <<files, pc, cfg, live_points, nested_samples, insertion_indices,
                 rolling_p, accepted, rejected, acceptance, iteration, logLmin,
                 logLmax, condition, max_count, last_updated,
                 uninformed_sampling, proposal, state, counter, hist>>

NextSetup ==
  \/ GetReparameterisationCall
  \/ SetupModelCall

InitSetup == InitSampler(Config0)

SpecSetup == InitSetup /\ [][NextSetup]_vars

\* ------------------------------------------------- yield_sample alone
\* what the proposal and the model answer for one draw: the log-prior of the
\* candidate and the log-likelihood the model would return for it
Candidates == [logP : LogPValues, logL : LogLValues]

\* the least counter with 1 / counter < acceptance_threshold of Config0
PassLength ==
  (Config0.acceptance_threshold[2] \div Config0.acceptance_threshold[1]) + 1

\* a logL field the likelihood has not filled in
Unset == PosInf

EvaluateBoth(cand, k) ==
  [logP |-> cand.logP, logL |-> cand.logL,
   calls |-> <<[fn |-> "log_likelihood", draw |-> k], [fn |-> "log_prior", draw |-> k]>>]

\* one draw: log_prior is evaluated, log_likelihood only if logP != -inf
Evaluate(cand, k) ==
  IF cand.logP # NegInf
  THEN [logP |-> cand.logP, logL |-> cand.logL,
        calls |-> <<[fn |-> "log_prior", draw |-> k], [fn |-> "log_likelihood", draw |-> k]>>]
  ELSE [logP |-> cand.logP, logL |-> Unset,
        calls |-> <<[fn |-> "log_prior", draw |-> k]>>]

\* one pass of yield_sample from draw number k on: oldparam, the answers to
\* the draws, self.logLmin and the calls made on the model so far
RECURSIVE YieldPass(_, _, _, _, _)
YieldPass(oldparam, cands, k, lmin, calls) ==
  LET newparam == Evaluate(cands[k], k)
      made == calls \o newparam.calls
  IN IF newparam.logP # NegInf /\ newparam.logL > lmin
     THEN [acc |-> <<1, k>>, param |-> [logP |-> newparam.logP, logL |-> newparam.logL],
           improved |-> TRUE, counter |-> k, max_count |-> 0, calls |-> made]
     ELSE IF EarlyExit(k)
     THEN [acc |-> <<1, k>>, param |-> oldparam,
           improved |-> FALSE, counter |-> k, max_count |-> 1, calls |-> made]
     ELSE YieldPass(oldparam, cands, k + 1, lmin, made)

\* next(self.yield_sample(oldparam))
yield_sample(oldparam, cands, lmin) == YieldPass(oldparam, cands, 1, lmin, <<>>)

\* yield_sample called on the popped point with logL = logLmin, for any
\* answers of the proposal and the model; the pass reads no state the call
\* before it left, so one call per behaviour covers them all
YieldCall ==
  /\ pc = "new"
  /\ ret = Ret0
  /\ \E cands \in [1..PassLength -> Candidates], lmin \in FiniteLogL :
       ret' = [Ret0 EXCEPT !.op = "yield_sample", !.value = lmin,
                           !.setup = <<[cands |-> cands,
                                        out |-> yield_sample([logP |-> 0, logL |-> lmin],
                                                             cands, lmin)]>>]
  /\ UNCHANGED <<files, pc, cfg, live_points, nested_samples, insertion_indices,
                 rolling_p, accepted, rejected, acceptance, iteration, logLmin,
                 logLmax, condition, max_count, last_updated,
                 uninformed_sampling, proposal, state, counter, hist>>

NextYield == YieldCall

InitYield == InitSampler(Config0)

SpecYield == InitYield /\ [][NextYield]_vars

\* ------------------------------------------------- properties
\* C1: after every insert_live_point call, whatever the logL of the inserted
\* point, the population is sorted ascending by logL and holds exactly nlive points
C1_SortedAndSized ==
  pc # "new" => (IsSorted(live_points) /\ Len(live_points) = NLive)

\* C2: between the operations of a run (after initialise, after check_state,
\* after consume_sample, through the final drain) len(live_points) = nlive
C2_PopulationSize == pc # "new" => Len(live_points) = NLive

C2_Witness ==
  pc = "loop" /\ iteration >= 2 /\ rejected > InitialRejected
    /\ Len(live_points) = NLive

\* C3 as stated: right after consume_sample the first live point has logL = logLmin
C3_FirstIsLogLmin == pc = "update" => live_points[1].logL = logLmin

\* C3 amended: from the pop until the replacement is inserted the first live
\* point has logL = logLmin; after consume_sample logLmin is the logL of the
\* point just archived and the first live point has logL >= logLmin
C3_FirstAtLeastLogLmin ==
  /\ pc = "yield" => live_points[1].logL = logLmin
  /\ pc = "update" =>
       /\ live_points[1].logL >= logLmin
       /\ nested_samples[Len(nested_samples)].logL = logLmin

C3_Witness == pc = "update" /\ live_points[1].logL > logLmin /\ iteration >= 2

\* C4 as stated: accepted + rejected is the number of proposal draws so far
C4_CountersEqualDraws ==
  hist.draws < MaxDraws => accepted + rejected = hist.draws

\* C4 amended: accepted + rejected is one more than the number of yield_sample
\* results consume_sample has taken (one per pass of its replacement loop), and
\* accepted is the number of insertion indices logged
C4_CountersEqualPasses ==
  /\ accepted + rejected = 1 + hist.passes
  /\ accepted = Len(insertion_indices)

C4_Witness ==
  pc = "update" /\ accepted >= 1 /\ rejected > InitialRejected /\ hist.passes >= 2

StrictlyIncreasingFinite(ls) ==
  /\ \A k \in 2..Len(ls) : ls[k] # NegInf
  /\ \A k \in 2..(Len(ls) - 1) : ls[k] < ls[k + 1]

ConstantNlive(vols) ==
  \A k \in 1..(Len(vols) - 2) : vols[k + 1] - vols[k] = vols[k + 2] - vols[k + 1]

\* C5: an increment call never lowers logZ, for any logL and any effective
\* nlive >= 1; after strictly increasing finite logL with a constant nlive logZ
\* is finite
C5_LogZNonDecreasing ==
  /\ ret.op = "increment" => state.logZ >= ret.oldZ
  /\ (state.iteration >= 1 /\ StrictlyIncreasingFinite(state.logLs)
        /\ ConstantNlive(state.log_vols))
       => (state.logZ > exp(NegInf) /\ state.logZ < PosInf)

C5_Witness ==
  /\ ret.op = "increment"
  /\ state.iteration >= 3
  /\ StrictlyIncreasingFinite(state.logLs)
  /\ ConstantNlive(state.log_vols)
  /\ state.logZ > ret.oldZ

\* the step is a check_state call: from the loop, or from the replacement loop
CheckStateStep == (pc = "loop" /\ pc' = "consume") \/ (pc = "yield" /\ rejected' # rejected)

\* (rejected and acceptance < acceptance_threshold) or iteration >= maximum_uninformed
SwitchCondition ==
  (pc = "yield" /\ AcceptanceLow) \/ iteration >= cfg.maximum_uninformed

\* C6: the selector leaves UNINFORMED for TRAINED at most once, in the first
\* check_state call in which the switch condition holds, and never goes back
C6_SwitchOnce ==
  [][/\ (pc # "new" /\ (uninformed_sampling' # uninformed_sampling
                          \/ proposal' # proposal))
          => /\ uninformed_sampling /\ proposal = "uninformed"
             /\ ~uninformed_sampling' /\ proposal' = "flow"
             /\ CheckStateStep /\ SwitchCondition
     /\ (CheckStateStep /\ uninformed_sampling /\ SwitchCondition)
          => (~uninformed_sampling' /\ proposal' = "flow")
     /\ ~uninformed_sampling => ~uninformed_sampling'
     /\ proposal = "flow" => proposal' = "flow"
     /\ hist.switched' <= 1]_vars

\* a switch made on a rejected draw with low acceptance, before maximum_uninformed
C6_Witness ==
  /\ hist.switched = 1 /\ proposal = "flow" /\ ~uninformed_sampling
  /\ iteration < cfg.maximum_uninformed
  /\ pc = "update"

\* C9: insert_live_point returns the rank at which the inserted point sits after
\* the call, and rank 0 when its logL is below that of every other point
C9_RankIsLanding ==
  ret.op = "insert_live_point" =>
    /\ ret.index \in 0..(Len(live_points) - 1)
    /\ live_points[ret.index + 1].id = ret.id
    /\ (\A k \in 1..Len(live_points) :
          live_points[k].id # ret.id => ret.value < live_points[k].logL)
         => ret.index = 0

\* C10: from the reset state, increment calls with logL = -infinity leave
\* logZ = -infinity
C10_NegInfKeepsSentinel ==
  (\A k \in 1..Len(state.logLs) : state.logLs[k] = NegInf)
    => state.logZ = exp(NegInf)

C10_Witness ==
  /\ state.iteration >= 3
  /\ \A k \in 1..Len(state.logLs) : state.logLs[k] = NegInf
  /\ state.logZ = exp(NegInf)

\* the resumed sampler holds the state the original had at the checkpoint
SameAsCheckpointed(obj, saved) ==
  /\ obj.saved = saved
  /\ obj.logLmin = saved.llmin
  /\ obj.logLmax = saved.llmax

\* C7: checkpoint() between two iterations followed by resume() yields a
\* sampler whose run state, integrator state, live points, archive and
\* insertion indices are those of the original at the checkpoint
C7_RoundTrip ==
  (resumed.source = "own" /\ hist.checkpointed # <<>>)
    => /\ resumed.status = "returned"
       /\ SameAsCheckpointed(resumed.obj[1], hist.checkpointed[1])

\* the sampler resume returned fits its model and its own nlive
Consistent(obj) ==
  /\ obj.model = obj.saved.names
  /\ Len(obj.saved.live_points) = obj.saved.nlive
  /\ obj.saved.state.nlive = obj.saved.nlive

\* C8: resume() returns a sampler only when the model's parameter names, the
\* restored nlive and the restored population size are consistent
C8_ResumeValidates ==
  resumed.status = "returned" => Consistent(resumed.obj[1])

\* the weight of one increment call: logw + logL + logsubexp(0, -1/nlive), stored
WeightOf(logw, logL, nlive) ==
  (exp(Add(logw, logL)) * logsubexp0(0 - (Den \div nlive))) \div Scale

\* C11: an increment call, also one whose logL is <= the last recorded logL,
\* raises nothing and makes the full update: logZ becomes logaddexp(logZ, Wt),
\* logw goes down by 1/nlive, iteration goes up by one, logL and the new logw
\* are appended to the histories
C11_NonMonotonicSameUpdate ==
  ret.op = "increment" =>
    LET n == Len(state.logLs)
    IN /\ n >= 2
       /\ ret.raised = "none"
       /\ Len(state.log_vols) = n
       /\ state.iteration = n - 1
       /\ state.logLs[n] = ret.value
       /\ state.log_vols[n] = state.logw
       /\ state.logw = state.log_vols[n - 1] - (Den \div ret.index)
       /\ state.logZ
            = logaddexp(ret.oldZ, WeightOf(state.log_vols[n - 1], ret.value, ret.index))

\* a warned call on finite values that moved logZ
C11_Witness ==
  /\ ret.op = "increment" /\ ret.warned
  /\ ret.value # NegInf
  /\ state.iteration >= 2
  /\ state.logZ > ret.oldZ

C13_FinaliseFrame ==
  [][(pc = "drain" /\ pc' = "done")
       => /\ state'.logLs = state.logLs
          /\ state'.log_vols = state.log_vols
          /\ state'.logw = state.logw
          /\ state'.info = state.info
          /\ state'.iteration = state.iteration
          /\ ret'.op = "finalise"
          /\ ret'.value = state'.logZ]_vars

\* finalise ran after a drain and replaced the rectangle-rule estimate
C13_Witness ==
  /\ pc = "done" /\ ret.op = "finalise"
  /\ ret.value = state.logZ /\ state.logZ # ret.oldZ
  /\ Len(state.logLs) = state.iteration + 1

\* C14: in the final sweep increment is called once for each remaining live
\* point, in ascending order of logL, the i-th (from 0) with the effective
\* nlive = nlive - i, which is at least 1
C14_DrainEffectiveNlive ==
  /\ (pc = "drain" /\ counter >= 1) =>
       LET n == Len(state.logLs)
       IN /\ counter <= NLive
          /\ ret.op = "increment"
          /\ ret.index = NLive - (counter - 1)
          /\ ret.index >= 1
          /\ ret.value = live_points[counter].logL
          /\ state.logLs[n] = ret.value
          /\ state.log_vols[n] = state.log_vols[n - 1] - (Den \div ret.index)
          /\ counter >= 2 => live_points[counter - 1].logL <= live_points[counter].logL
          /\ state.iteration = iteration + counter
  /\ pc = "done" =>
       /\ state.iteration = iteration + NLive
       /\ Len(nested_samples) = iteration + NLive

\* the last point of the sweep went in with the effective nlive 1
C14_Witness ==
  /\ pc = "drain" /\ counter = NLive /\ iteration >= 1
  /\ ret.op = "increment" /\ ret.index = 1

\* condition <= tolerance as floating point decides it: false for a NaN
AtOrBelowTolerance == condition # NaN /\ condition <= Tolerance

\* C15: the loop starts an iteration only with condition > tolerance, and
\* consume_sample runs only then; the final drain and finalise() are reached
\* only with condition <= tolerance
C15_LoopGuard ==
  /\ [](pc \in {"drain", "done"} => AtOrBelowTolerance)
  /\ [][/\ (pc = "loop" /\ pc' = "consume") => condition > Tolerance
        /\ (pc = "consume" /\ pc' = "yield") => condition > Tolerance
        /\ (pc = "loop" /\ pc' = "drain") => AtOrBelowTolerance
        /\ pc \in {"drain", "done"} => (condition' = condition /\ pc' \in {"drain", "done"})]_vars

\* a run that went round the loop twice and then left it
C15_Witness ==
  /\ pc = "done" /\ iteration >= 2
  /\ AtOrBelowTolerance
  /\ Len(nested_samples) = iteration + NLive

\* one of rules 1-3 sets the train flag: forced, rejected with low acceptance,
\* or proposal unpopulated with train_on_empty
Rules123(c) ==
  c.force \/ (c.rejected /\ c.low) \/ (~c.populated /\ cfg.train_on_empty)

\* iteration - last_updated is a multiple of the training frequency (the most
\* generous reading of 'has advanced by the training frequency')
Advanced(c) == (c.iteration - c.before) % cfg.training_frequency = 0

C17_Cooldown ==
  ret.op = "check_state" =>
    /\ (~ret.check.force /\ ret.check.iteration - ret.check.before < cfg.cooldown)
         => ~ret.check.trained
    /\ ret.check.force
         => (ret.check.trained /\ last_updated = ret.check.iteration)
    /\ (ret.check.train /\ ret.check.cooling) => ~ret.check.first

\* the ids of the m most recently retired points
LastRetired(m) ==
  Ids(SubSeq(nested_samples, Len(nested_samples) - m + 1, Len(nested_samples)))

\* C18: a retrain with memory = m > 0 and at least m points archived hands
\* proposal.train the current live points followed by the m most recently
\* retired points; with memory disabled, exactly the current live points
C18_TrainingData ==
  (ret.op = "check_state" /\ ret.check.train /\ ~ret.check.cooling) =>
    /\ ret.raised = "none"
    /\ ret.check.trained
    /\ hist.training_data
         = IF cfg.memory > 0 /\ Len(nested_samples) >= cfg.memory
           THEN Ids(live_points) \o LastRetired(cfg.memory)
           ELSE Ids(live_points)

\* C19: with n_periodic_checkpoint = N the loop calls checkpoint() every N
\* iterations, between update_state and the next check_state, and goes on
C19_PeriodicCheckpoint ==
  cfg.n_periodic_checkpoint > 0 =>
    /\ pc # "raised"
    /\ (pc = "loop" /\ iteration >= cfg.n_periodic_checkpoint)
         => hist.checkpointed # <<>>

\* the draw at which a pass of yield_sample gives up: the least counter with
\* 1 / counter < acceptance_threshold, floor(1 / acceptance_threshold) + 1
PassBound == (cfg.acceptance_threshold[2] \div cfg.acceptance_threshold[1]) + 1

\* C20 as stated: the proposal draws of one consume_sample call are bounded,
\* whatever the proposal does, by the bound the early exit puts on a pass
C20_DrawsBounded == pc = "yield" => hist.pending <= PassBound

\* C20 amended: every pass of yield_sample ends within PassBound draws; a
\* consume_sample call makes pass after pass until one improves on logLmin, and
\* each pass that fails has made exactly PassBound draws
C20_PassBounded ==
  pc = "yield" =>
    /\ counter < PassBound
    /\ hist.pending % PassBound = counter

\* a consume_sample call in its third pass
C20_Witness ==
  /\ pc = "yield" /\ counter >= 1
  /\ hist.pending > 2 * PassBound

\* C21: the sample size handed to the one-sided K-S distribution is the number
\* of ranks tested: nlive ranks in the rolling variant, the whole
\* insertion-index log in the final variant
C21_SampleSizeIsTested ==
  ret.op = "check_insertion_indices" =>
    /\ ret.diag.n = ret.diag.tested
    /\ ret.diag.rolling => ret.diag.tested = NLive
    /\ ~ret.diag.rolling => ret.diag.tested = Len(insertion_indices)

\* the step is a check_insertion_indices call, direct or from update_state
DiagnosticStep ==
  \/ ret'.op = "check_insertion_indices" /\ (ret' # ret \/ rolling_p' # rolling_p)
  \/ pc = "update" /\ iteration % NLive = 0

\* C22: check_insertion_indices leaves the live points, the archive, the
\* insertion indices, the counters, the integrator state, the proposal mode and
\* last_updated as they are; the rolling variant appends one p-value to
\* rolling_p, the final variant leaves rolling_p as it is; the caller goes on
\* whatever the p-value
C22_DiagnosticFrame ==
  [][DiagnosticStep
       => /\ UNCHANGED <<live_points, nested_samples, insertion_indices, accepted,
                         rejected, acceptance, state, proposal,
                         uninformed_sampling, last_updated, iteration>>
          /\ IF pc = "update" \/ ret'.diag.rolling
             THEN /\ Len(rolling_p') = Len(rolling_p) + 1
                  /\ SubSeq(rolling_p', 1, Len(rolling_p)) = rolling_p
             ELSE rolling_p' = rolling_p
          /\ pc = "update" => pc' = "loop"
          /\ pc # "update" => pc' = pc]_vars

\* the final variant was called on a log with a rolling p-value already stored
C22_Witness ==
  /\ ret.op = "check_insertion_indices" /\ ~ret.diag.rolling
  /\ Len(rolling_p) >= 2 /\ Len(insertion_indices) > NLive

\* the configuration names an activation that is not registered
UnknownActivation(config) ==
  /\ config.kwargs.given
  /\ config.kwargs.activation \notin {None, Callable}
  /\ config.kwargs.activation \notin DOMAIN activations

\* the configuration names a flow type that is not registered
UnknownFlowType(config) ==
  config.ftype # None /\ Lower(config.ftype) \notin DOMAIN flows

\* get_reparameterisation raises RuntimeError for every name that is no key of
\* REPARAMETERISATION_DICT and returns the registered class otherwise
ReparameterisationByName ==
  ret.op = "get_reparameterisation" =>
    LET r == ret.setup[1]
    IN IF r.name \in {"default", "rescaletobounds"}
       THEN ret.raised = "none" /\ r.value = "RescaleToBounds"
       ELSE ret.raised = "RuntimeError" /\ r.value = None

\* C23 as stated: setup with an unknown name fails with a RuntimeError:
\* get_reparameterisation for every unregistered name, setup_model for an
\* unknown flow type or activation name, before any model is built
C23_UnknownNameRaises ==
  /\ ReparameterisationByName
  /\ ret.op = "setup_model" =>
       LET r == ret.setup[1]
       IN (UnknownFlowType(r.config) \/ UnknownActivation(r.config))
            => (ret.raised = "RuntimeError" /\ r.model = None)

\* C23 amended: as stated for get_reparameterisation and for an unknown
\* activation name; an unknown flow type raises RuntimeError when the
\* configuration gives no flow class, and is not looked at when it gives one
C23_UnknownNameRaisesUnlessFlowGiven ==
  /\ ReparameterisationByName
  /\ ret.op = "setup_model" =>
       LET r == ret.setup[1]
       IN /\ UnknownActivation(r.config)
               => (ret.raised = "RuntimeError" /\ r.model = None)
          /\ (UnknownFlowType(r.config) /\ r.config.flow = None)
               => (ret.raised = "RuntimeError" /\ r.model = None)
          /\ (~UnknownActivation(r.config) /\ r.config.flow # None)
               => (ret.raised # "RuntimeError" /\ r.model = r.config.flow)

\* an unknown flow type with a known activation name was refused
C23_Witness ==
  /\ ret.op = "setup_model" /\ ret.raised = "RuntimeError"
  /\ ret.setup[1].config.ftype = "glow" /\ ret.setup[1].config.flow = None
  /\ ret.setup[1].config.kwargs.given
  /\ ret.setup[1].activation = "silu"

\* the position of the call fn of draw k in the calls, 0 if it was not made
RECURSIVE CallAt(_, _, _, _)
CallAt(calls, fn, k, i) ==
  IF i > Len(calls) THEN 0
  ELSE IF calls[i].fn = fn /\ calls[i].draw = k THEN i
  ELSE CallAt(calls, fn, k, i + 1)

\* C24: log_likelihood is never evaluated for a candidate with log-prior
\* -infinity, such a candidate is never returned as an improvement, and for
\* every candidate log_prior is evaluated before log_likelihood
C24_PriorBeforeLikelihood ==
  ret.op = "yield_sample" =>
    LET cands == ret.setup[1].cands
        out == ret.setup[1].out
    IN /\ \A k \in 1..out.counter :
            /\ CallAt(out.calls, "log_prior", k, 1) > 0
            /\ cands[k].logP = NegInf => CallAt(out.calls, "log_likelihood", k, 1) = 0
            /\ cands[k].logP # NegInf =>
                 CallAt(out.calls, "log_likelihood", k, 1)
                   > CallAt(out.calls, "log_prior", k, 1)
       /\ \A k \in (out.counter + 1)..PassLength :
            CallAt(out.calls, "log_prior", k, 1) = 0
              /\ CallAt(out.calls, "log_likelihood", k, 1) = 0
       /\ out.improved =>
            /\ cands[out.counter].logP # NegInf
            /\ out.param.logP # NegInf /\ out.param.logL # Unset
            /\ out.param.logL > ret.value
       /\ ~out.improved => out.param = [logP |-> 0, logL |-> ret.value]

\* a candidate outside the prior was skipped and a later one improved
C24_Witness ==
  /\ ret.op = "yield_sample"
  /\ ret.setup[1].cands[1].logP = NegInf
  /\ ret.setup[1].cands[1].logL > ret.value
  /\ ret.setup[1].out.improved /\ ret.setup[1].out.counter = 2

\* C25: every rank appended to insertion_indices during the main loop lies in
\* 0..nlive-1
C25_RanksInRange ==
  \A k \in 1..Len(insertion_indices) : insertion_indices[k] \in 0..(NLive - 1)

\* the lowest and the highest rank have both been logged
C25_Witness ==
  /\ pc = "update"
  /\ \E k \in 1..Len(insertion_indices) : insertion_indices[k] = 0
  /\ \E k \in 1..Len(insertion_indices) : insertion_indices[k] = NLive - 1

\* C26: a pass makes at most floor(1/t) + 1 draws; a pass that ends through
\* the early exit adds one to max_count and yields the popped point, whose logL
\* is not greater than logLmin, so that consume_sample counts one rejection,
\* inserts nothing and calls check_state(rejected=True)
C26_EarlyExitRejects ==
  [][/\ (pc = "yield" /\ pc' = "yield") => counter' <= PassBound - 1
     /\ (pc = "yield" /\ counter' = counter + 1) => ~EarlyExit(counter')
     /\ (pc = "yield" /\ max_count' # max_count)
          => /\ EarlyExit(counter + 1)
             /\ counter + 1 <= PassBound
             /\ max_count' = max_count + 1
             /\ nested_samples[Len(nested_samples)].logL <= logLmin
             /\ rejected' = rejected + 1
             /\ UNCHANGED <<live_points, insertion_indices, accepted, nested_samples>>
             /\ ret'.op = "check_state"
             /\ ret'.check.rejected /\ ~ret'.check.force
     /\ (max_count' # max_count) <=> (rejected' # rejected)]_vars

\* two passes have ended through the early exit
C26_Witness ==
  /\ pc = "yield" /\ max_count >= 2
  /\ ret.op = "check_state" /\ ret.check.rejected
  /\ rejected = InitialRejected + max_count

\* C27: after every completed consume_sample of the main loop
\* len(nested_samples) = len(insertion_indices) = accepted = iteration =
\* state.iteration, and the entries of nested_samples and insertion_indices
\* are never changed or removed
C27_OnePerIteration ==
  /\ [](pc \in {"update", "loop"} =>
          /\ Len(nested_samples) = iteration
          /\ Len(insertion_indices) = iteration
          /\ accepted = iteration
          /\ state.iteration = iteration)
  /\ [][/\ Len(nested_samples') >= Len(nested_samples)
        /\ SubSeq(nested_samples', 1, Len(nested_samples)) = nested_samples
        /\ Len(insertion_indices') >= Len(insertion_indices)
        /\ SubSeq(insertion_indices', 1, Len(insertion_indices)) = insertion_indices
        /\ (pc = "yield" /\ pc' = "update")
             => /\ Len(insertion_indices') = Len(insertion_indices) + 1
                /\ accepted' = accepted + 1
                /\ Len(nested_samples') = iteration]_vars

\* three iterations completed, one of them after a rejection
C27_Witness ==
  /\ pc = "update" /\ iteration = 3 /\ accepted = 3
  /\ Len(nested_samples) = 3 /\ Len(insertion_indices) = 3
  /\ rejected > InitialRejected

\* C28: at a check_state(rejected=True) call from the rejection loop the
\* acceptance compared with the threshold is accepted / (accepted + rejected)
\* of the counters at that call
C28_AcceptanceIsCurrent ==
  (pc = "yield" /\ ret.op = "check_state" /\ ret.check.rejected)
    => /\ acceptance[1] * (accepted + rejected) = accepted * acceptance[2]
       /\ ret.check.low
            <=> FracLess(accepted, accepted + rejected,
                         cfg.acceptance_threshold[1], cfg.acceptance_threshold[2])

\* the numbers of a sequence never go down
NonDecreasing(ls) == \A k \in 1..(Len(ls) - 1) : ls[k] <= ls[k + 1]

\* the logL column of a sequence of points
LogLs(points) == [k \in 1..Len(points) |-> points[k].logL]

\* C29: over a whole run the logL values passed to state.increment never go
\* down, and neither do the logL values of nested_samples
C29_LogLNonDecreasing ==
  /\ NonDecreasing(state.logLs)
  /\ NonDecreasing(LogLs(nested_samples))
  /\ pc \in {"update", "loop", "drain", "done"}
       => state.logLs = <<NegInf>> \o LogLs(nested_samples)

\* a finished run whose archive has a tie and a strict rise, drain included
C29_Witness ==
  /\ pc = "done" /\ iteration >= 2
  /\ \E k \in 1..(Len(nested_samples) - 1) :
       nested_samples[k].logL = nested_samples[k + 1].logL
  /\ \E k \in 1..(Len(nested_samples) - 1) :
       nested_samples[k].logL < nested_samples[k + 1].logL
  /\ nested_samples[iteration].logL <= nested_samples[iteration + 1].logL

\* C30: the snapshot of live points check_state hands to proposal.train
\* (memory disabled) holds no point that is already in nested_samples
C30_SnapshotHoldsNoArchived ==
  (ret.op = "check_state" /\ ret.check.trained /\ cfg.memory = 0)
    => \A k \in 1..Len(hist.training_data) :
         \A j \in 1..Len(nested_samples) :
           hist.training_data[k] # nested_samples[j].id

\* C31: after initialise(), for every maximum_uninformed, uninformed_sampling is
\* false exactly when the active proposal is the flow proposal, and a draw
\* comes from the uninformed proposal only when maximum_uninformed > 0
C31_FlagMatchesProposal ==
  pc # "new" =>
    /\ ~uninformed_sampling <=> proposal = "flow"
    /\ (pc = "yield" /\ proposal = "uninformed") => cfg.maximum_uninformed > 0

\* C32: with train_on_empty enabled, every proposal.draw on the flow proposal
\* comes after a train call on it; each step taken inside consume_sample's
\* rejection loop is one proposal.draw on the active proposal
C32_FlowTrainedBeforeDraw ==
  [][(pc = "yield" /\ proposal = "flow" /\ cfg.train_on_empty)
       => hist.flow_trained]_vars

\* C33: no check_state call trains while uninformed_sampling is still true
\* after its mode-switch step, and the uninformed proposal is never trained
C33_NoTrainingWhileUninformed ==
  /\ (ret.op = "check_state" /\ ret.check.uninformed) => ~ret.check.trained
  /\ ~hist.uninformed_trained

====
